---- MODULE Spec2Model ----
(***************************************************************************)
(* Chunked FCS upload of pat-auth-fastapi-demo: the upload session         *)
(* endpoints (app/api/v1/fcs.py), the finalizer                            *)
(* (app/services/chunked_upload.py), the local chunk store                 *)
(* (app/storage/local.py) and the two cleanup sweeps                       *)
(* (app/services/cleanup.py), over the background_tasks table.             *)
(*                                                                         *)
(* Granularity.  Handlers run in independent workers (and the sweeps in a  *)
(* cron process), each with its own SQLAlchemy session, so one step of the *)
(* model is one database round trip (a query, or a commit) or one storage  *)
(* call.  A handler works on the copy of the row it loaded (snap) until    *)
(* its commit; a commit writes only the columns the handler assigned.      *)
(* A client addresses a session only after init has returned its task id.  *)
(***************************************************************************)
EXTENDS Integers, Sequences, FiniteSets, TLC

(* ---------------------------- bounds ----------------------------------- *)
MaxReqs     == 2   \* upload_chunk handlers in flight at the same time
MaxUploads  == 3   \* accepted upload_chunk requests in one behaviour
MaxFileSize == 6   \* declared file sizes are MaxFileSize-1 and MaxFileSize
ChunkSize   == 3   \* chunk_size chosen by the client (scaled down)
MaxClock    == 2   \* the clock stops here
MaxSessions == 1   \* init requests in one behaviour
MaxStats    == 1   \* statistics requests in one behaviour
MaxAborts   == 1   \* accepted abort requests in one behaviour
MaxSweeps   == 1   \* runs of each sweep in one behaviour
MaxFaults   == 1   \* unlink calls that raise in one behaviour
MaxProbes   == 1   \* rejected requests in one behaviour
MaxCalcReqs == 2   \* statistics/calculate handlers in flight at the same time

(* ------------------------ program constants ---------------------------- *)
Ttl      == 1      \* expires_at = now + 24h
MagicLen == 3      \* len(b"FCS")

Owner     == 1        \* the user who creates the sessions
Users     == {1, 2}   \* the users who send requests
Reqs      == 1 .. MaxReqs
FinIds    == 1 .. MaxUploads
CalcReqs  == 1 .. MaxCalcReqs
FileSizes == {MaxFileSize - 1, MaxFileSize}
Visibilities == {TRUE}

PENDING    == "pending"
PROCESSING == "processing"
FINALIZING == "finalizing"
COMPLETED  == "completed"
FAILED     == "failed"
EXPIRED    == "expired"

CHUNKED_UPLOAD == "chunked_upload"
STATISTICS     == "statistics"

(* ------------------------------ bytes ---------------------------------- *)
\* b"FCS" is <<70, 67, 83>>; every other byte of the client's file is 120
\* (b"x"), a freshly truncated temp file holds 0 everywhere.
Magic == <<70, 67, 83>>

FileByte(p) == IF p <= MagicLen THEN Magic[p] ELSE 120

\* the client's file: positions 1..file_size (position p is offset p-1)
FileContent(file_size) == [p \in 1 .. file_size |-> FileByte(p)]

Min(a, b) == IF a < b THEN a ELSE b
Max(a, b) == IF a < b THEN b ELSE a

\* bytes [offset, offset+n) of the client's file, cut at the end of the file
Slice(file_size, offset, n) ==
    [i \in 1 .. Max(0, Min(n, file_size - offset)) |-> FileByte(offset + i)]

\* what a client sends as chunk idx of a file (file_size, chunk_size)
Payload(kind, idx, file_size, chunk_size) ==
    LET good == Slice(file_size, idx * chunk_size, chunk_size)
    IN  CASE kind = "ok"       -> good
          [] kind = "long"     -> good \o <<120>>
          [] kind = "short"    -> SubSeq(good, 1, Len(good) - 1)
          [] kind = "badmagic" -> [i \in 1 .. Len(good) |-> 120]

PayloadKinds == {"ok", "long", "short", "badmagic"}

(* ------------------------- rows and results ---------------------------- *)
NoResult == [kind |-> "none", file_id |-> 0, detail |-> FALSE]

\* {"error_message": <fixed text>} or, with detail, <text>: {str(e)}
ErrorResult(kind, detail) == [kind |-> kind, file_id |-> 0, detail |-> detail]

\* {"file_id": ..., "filename": ..., "total_events": ..., ...}
FileResult(file_id) == [kind |-> "file", file_id |-> file_id, detail |-> FALSE]

NoExtra ==
    [present |-> FALSE, file_size |-> 0, chunk_size |-> 0, total_chunks |-> 0,
     uploaded_chunks |-> 0, uploaded_bytes |-> 0,
     uploaded_chunk_numbers |-> <<>>, is_public |-> FALSE]

\* variant: the division rounds down
TotalChunks_Floor(file_size, chunk_size) == file_size \div chunk_size

\* total_chunks = (file_size + chunk_size - 1) // chunk_size
TotalChunks(file_size, chunk_size) == (file_size + chunk_size - 1) \div chunk_size

NewExtra(file_size, chunk_size, is_public) ==
    [present |-> TRUE, file_size |-> file_size, chunk_size |-> chunk_size,
     total_chunks |-> TotalChunks(file_size, chunk_size),
     uploaded_chunks |-> 0, uploaded_bytes |-> 0,
     uploaded_chunk_numbers |-> <<>>, is_public |-> is_public]

\* BackgroundTask(...): a new row; 0 stands for NULL in fcs_file_id/expires_at
NewTask(task_type, user_id, expires_at, extra_data) ==
    [task_type |-> task_type, status |-> PENDING, user_id |-> user_id,
     result |-> NoResult, fcs_file_id |-> 0, completed_at |-> FALSE,
     expires_at |-> expires_at, extra_data |-> extra_data]

Range(s) == {s[i] : i \in DOMAIN s}

(* ---------------------------- variables -------------------------------- *)
VARIABLES
    tasks,      \* background_tasks: sequence of rows, the id is the index
    temp,       \* .tmp/uploads: session id -> bytes of <session id>.tmp
    perm,       \* fcs/: file id -> [data, sid] of <file id>.fcs
    fcsFiles,   \* fcs_files: sequence of rows, the id is the index
    now,        \* datetime.now()
    nextFileId, \* the next value generate_short_id returns
    ini,        \* init_chunked_upload handler
    up,         \* upload_chunk handlers
    fin,        \* finalize_chunked_upload runs (scheduled, running, done)
    ab,         \* abort_chunked_upload handler
    sw,         \* cleanup_expired_upload_sessions run
    os,         \* cleanup_orphaned_temp_files run
    last,       \* the most recent answer given to a client
    left,       \* requests and sweep runs the environment may still start
    stats,      \* fcs_statistics: the file_id values that have a record
    cq,         \* trigger_statistics_calculation handlers
    job         \* calculate_statistics_task runs: task id -> [pc, file]

vars == <<tasks, temp, perm, fcsFiles, now, nextFileId, ini, up, fin, ab,
          sw, os, last, left, stats, cq, job>>

TaskIds == 1 .. Len(tasks)

\* ids a client can name: sessions whose init has answered, statistics
\* tasks, and one id that no row has
Addressable == {t \in 1 .. Len(tasks) + 1 : ~(ini.pc # "idle" /\ ini.tid = t)}

HasTemp(sid) == sid \in DOMAIN temp

\* stems of files in .tmp/uploads that no session created: StrayId stands
\* for a decimal number that is no row's id, BadStem for a stem that is no
\* decimal number (int(sid) raises ValueError)
StrayId == 0
BadStem == 0 - 1
IsNumber(sid) == sid >= 0

(* ------------------------------ Init ----------------------------------- *)
NoTask == NewTask(CHUNKED_UPLOAD, 0, 0, NoExtra)

IdleUp ==
    [pc |-> "idle", tid |-> 0, idx |-> 0, data |-> <<>>, snap |-> NoTask,
     bw |-> 0]

IdleFin == [pc |-> "idle", tid |-> 0, snap |-> NoTask, file_id |-> 0,
            why |-> "none", outcome |-> "none"]

IdleAb == [pc |-> "idle", tid |-> 0, snap |-> NoTask, resp |-> "none"]

\* a calculate handler: the file_id it stores under ("sample" is 0) and the
\* id of the FCSFile row (0 is NULL)
IdleCalc == [pc |-> "idle", file |-> 0, fcs |-> 0, user |-> 0]

NoAnswer == [op |-> "none", tid |-> 0, resp |-> "none"]
\* answers are recorded only in the specifications that observe them
Answer(op, tid, resp) ==
    IF left.log THEN [op |-> op, tid |-> tid, resp |-> resp] ELSE NoAnswer

\* what the environment may still do: init requests, statistics requests,
\* accepted chunk uploads, accepted abort requests, runs of the two sweeps,
\* clock ticks; how many upload_chunk handlers run at once, the file sizes
\* clients declare, and how many rejected requests are sent; the answers
\* are recorded in `last` in the specifications that send such requests
Budget(inits, calcs, uploads, aborts, sweeps, orphans, ticks, slots, sizes, probes) ==
    [inits |-> inits, calcs |-> calcs, uploads |-> uploads,
     aborts |-> aborts, sweeps |-> sweeps, orphans |-> orphans,
     ticks |-> ticks, slots |-> slots, sizes |-> sizes, probes |-> probes,
     log |-> probes > 0, chunks |-> {ChunkSize}, strays |-> {}, faults |-> 0]

InitWith(budget) ==
    /\ tasks = <<>>
    /\ temp = [s \in budget.strays |-> <<>>]
    /\ perm = <<>>
    /\ fcsFiles = <<>>
    /\ now = 0
    /\ nextFileId = 1
    /\ ini = [pc |-> "idle", tid |-> 0]
    /\ up = [r \in Reqs |-> IdleUp]
    /\ fin = [f \in FinIds |-> IdleFin]
    /\ ab = IdleAb
    /\ sw = [pc |-> "idle", todo |-> <<>>, marked |-> {}]
    /\ os = [pc |-> "idle", active |-> {}, todo |-> <<>>]
    /\ last = NoAnswer
    /\ left = budget
    /\ stats = {}
    /\ cq = [r \in CalcReqs |-> IdleCalc]
    /\ job = <<>>

\* concurrent chunk uploads and finalizer runs of one session
TrafficBudget ==
    Budget(MaxSessions, 0, MaxUploads, 0, 0, 0, 0, MaxReqs, FileSizes, 0)

\* one session with an abort racing its uploads and its finalizer
AbortBudget ==
    Budget(MaxSessions, 0, MaxUploads, MaxAborts, 0, 0, 0, MaxReqs, {MaxFileSize}, 0)

\* one session with everything: uploads, finalizer, abort, clock, sweeps
MixedBudget ==
    Budget(MaxSessions, 0, MaxUploads - 1, MaxAborts, MaxSweeps, MaxSweeps, 1, 1,
           {MaxFileSize}, 0)

\* one session, the clock and the two sweeps
SweepBudget ==
    Budget(MaxSessions, 0, MaxUploads - 1, 0, MaxSweeps, MaxSweeps, 1, 1,
           {MaxFileSize}, 0)

\* requests of both users on a session and a statistics task, answers
\* recorded
AnswerBudget ==
    Budget(MaxSessions, MaxStats, MaxUploads - 1, MaxAborts, 0, 0, 0, 1, FileSizes, MaxProbes)

Init ==
    \E b \in {TrafficBudget, AbortBudget, SweepBudget, MixedBudget, AnswerBudget} :
        InitWith(b)

(* ------------------------------ clock ---------------------------------- *)
\* more than one session lifetime passes; the init handler, which sets the
\* deadline one lifetime after its own start, has answered by then
Tick ==
    /\ left.ticks > 0
    /\ ini.pc = "idle"
    /\ now + Ttl + 1 <= MaxClock
    /\ now' = now + Ttl + 1
    /\ left' = [left EXCEPT !.ticks = @ - 1]
    /\ UNCHANGED <<tasks, temp, perm, fcsFiles, nextFileId, ini, up, fin,
                   ab, sw, os, last, stats, cq, job>>

(* ------------------- init_chunked_upload (POST /upload) ---------------- *)
\* 1. filename.lower().endswith(".fcs") fails: 400, nothing is created
InitRejectFilename ==
    /\ left.probes > 0
    /\ ini.pc = "idle"
    /\ left.inits > 0
    /\ last' = Answer("init", 0, "400")
    /\ left' = [left EXCEPT !.probes = @ - 1]
    /\ UNCHANGED <<tasks, temp, perm, fcsFiles, now, nextFileId, ini, up,
                   fin, ab, sw, os, stats, cq, job>>

\* 2.-3. total_chunks, the BackgroundTask row in pending, db.commit()
InitCreate(user, file_size, chunk_size, is_public) ==
    /\ ini.pc = "idle"
    /\ left.inits > 0
    /\ tasks' = Append(tasks,
                  NewTask(CHUNKED_UPLOAD, user, now + Ttl,
                          NewExtra(file_size, chunk_size, is_public)))
    /\ ini' = [pc |-> "created", tid |-> Len(tasks) + 1]
    /\ left' = [left EXCEPT !.inits = @ - 1]
    /\ UNCHANGED <<temp, perm, fcsFiles, now, nextFileId, up, fin, ab, sw,
                   os, last, stats, cq, job>>

\* 4. storage.init_chunked_upload: open(temp_path, 'wb'); truncate(file_size)
\*    or an OSError, after which the temp file is unlinked again
InitAllocate(ok) ==
    /\ ini.pc = "created"
    /\ temp' = IF ok
               THEN [s \in DOMAIN temp \cup {ini.tid} |->
                        IF s = ini.tid
                        THEN [p \in 1 .. tasks[ini.tid].extra_data.file_size |-> 0]
                        ELSE temp[s]]
               ELSE [s \in DOMAIN temp \ {ini.tid} |-> temp[s]]
    /\ ini' = [ini EXCEPT !.pc = IF ok THEN "allocated" ELSE "allocfail"]
    /\ UNCHANGED <<tasks, perm, fcsFiles, now, nextFileId, up, fin, ab, sw,
                   os, last, left, stats, cq, job>>

\* task.status = "processing"; db.commit()   (201), or
\* task.status = "failed"; task.result = {...}; db.commit()   (500)
\* the 201 body carries task_id, the detail of the 500 carries none
\* (the in-place write of extra_data["temp_file_path"] is not flagged and
\* is not part of the UPDATE)
InitCommit ==
    /\ ini.pc \in {"allocated", "allocfail"}
    /\ tasks' = [tasks EXCEPT ![ini.tid] =
                  IF ini.pc = "allocated"
                  THEN [@ EXCEPT !.status = PROCESSING]
                  ELSE [@ EXCEPT !.status = FAILED,
                                 !.result = ErrorResult("init_failed", FALSE)]]
    /\ last' = IF ini.pc = "allocated"
               THEN Answer("init", ini.tid, "201")
               ELSE Answer("init", 0, "500")
    /\ ini' = [pc |-> "idle", tid |-> 0]
    /\ UNCHANGED <<temp, perm, fcsFiles, now, nextFileId, up, fin, ab, sw,
                   os, left, stats, cq, job>>

(* ------------------ upload_chunk (POST /upload/chunk) ------------------ *)
\* variant: the last chunk is held to chunk_size like the others
ExpectedSize_NoLast(chunk_number, extra) == extra.chunk_size

\* 5.5 expected size of chunk chunk_number (remainder based)
ExpectedSize(chunk_number, extra) ==
    IF chunk_number < extra.total_chunks - 1
    THEN extra.chunk_size
    ELSE LET remaining == extra.file_size % extra.chunk_size
         IN  IF remaining # 0 THEN remaining ELSE extra.chunk_size

\* app.services.fcs.validate_fcs_header
ValidFcsHeader(chunk_data) ==
    /\ Len(chunk_data) >= MagicLen
    /\ SubSeq(chunk_data, 1, MagicLen) = Magic

\* variant: the size check refuses only a chunk that is too long
UploadCheck_SizeAtMost(tid, user, chunk_number, chunk_data) ==
    IF tid \notin TaskIds THEN "404"
    ELSE LET task == tasks[tid]
         IN  IF task.task_type # CHUNKED_UPLOAD THEN "400type"
             ELSE IF task.user_id # user THEN "403"
             ELSE IF task.status \notin {PENDING, PROCESSING} THEN "400status"
             ELSE IF chunk_number >= task.extra_data.total_chunks THEN "400index"
             ELSE IF Len(chunk_data) > ExpectedSize(chunk_number, task.extra_data)
                  THEN "400size"
             ELSE IF chunk_number = 0 /\ ~ValidFcsHeader(chunk_data)
                  THEN "400format"
             ELSE "ok"

\* variant: the length of the chunk is not checked
UploadCheck_NoSize(tid, user, chunk_number, chunk_data) ==
    IF tid \notin TaskIds THEN "404"
    ELSE LET task == tasks[tid]
         IN  IF task.task_type # CHUNKED_UPLOAD THEN "400type"
             ELSE IF task.user_id # user THEN "403"
             ELSE IF task.status \notin {PENDING, PROCESSING} THEN "400status"
             ELSE IF chunk_number >= task.extra_data.total_chunks THEN "400index"
             ELSE IF chunk_number = 0 /\ ~ValidFcsHeader(chunk_data)
                  THEN "400format"
             ELSE "ok"

\* variant: step 3 (the status check) is missing
UploadCheck_NoStatus(tid, user, chunk_number, chunk_data) ==
    IF tid \notin TaskIds THEN "404"
    ELSE LET task == tasks[tid]
         IN  IF task.task_type # CHUNKED_UPLOAD THEN "400type"
             ELSE IF task.user_id # user THEN "403"
             ELSE IF chunk_number >= task.extra_data.total_chunks THEN "400index"
             ELSE IF Len(chunk_data) # ExpectedSize(chunk_number, task.extra_data)
                  THEN "400size"
             ELSE IF chunk_number = 0 /\ ~ValidFcsHeader(chunk_data)
                  THEN "400format"
             ELSE "ok"

\* variant: a session past its deadline is closed to uploads
UploadCheck_Deadline(tid, user, chunk_number, chunk_data) ==
    IF tid \notin TaskIds THEN "404"
    ELSE LET task == tasks[tid]
         IN  IF task.task_type # CHUNKED_UPLOAD THEN "400type"
             ELSE IF task.user_id # user THEN "403"
             ELSE IF task.status \notin {PENDING, PROCESSING} THEN "400status"
             ELSE IF task.expires_at # 0 /\ task.expires_at < now THEN "400status"
             ELSE IF chunk_number >= task.extra_data.total_chunks THEN "400index"
             ELSE IF Len(chunk_data) # ExpectedSize(chunk_number, task.extra_data)
                  THEN "400size"
             ELSE IF chunk_number = 0 /\ ~ValidFcsHeader(chunk_data)
                  THEN "400format"
             ELSE "ok"

\* steps 1.-5.6 of upload_chunk: the answer of the first check that fails,
\* "ok" when the chunk goes on to storage.save_chunk
UploadCheck(tid, user, chunk_number, chunk_data) ==
    IF tid \notin TaskIds THEN "404"
    ELSE LET task == tasks[tid]
         IN  IF task.task_type # CHUNKED_UPLOAD THEN "400type"
             ELSE IF task.user_id # user THEN "403"
             ELSE IF task.status \notin {PENDING, PROCESSING} THEN "400status"
             ELSE IF chunk_number >= task.extra_data.total_chunks THEN "400index"
             ELSE IF Len(chunk_data) # ExpectedSize(chunk_number, task.extra_data)
                  THEN "400size"
             ELSE IF chunk_number = 0 /\ ~ValidFcsHeader(chunk_data)
                  THEN "400format"
             ELSE "ok"

\* f.seek(offset); f.write(chunk_data) on a file opened 'r+b'
WriteAt(file, offset, chunk_data) ==
    [p \in 1 .. Max(Len(file), offset + Len(chunk_data)) |->
        IF p > offset /\ p <= offset + Len(chunk_data) THEN chunk_data[p - offset]
        ELSE IF p <= Len(file) THEN file[p]
        ELSE 0]

\* variant: the chunk counter is advanced outside the membership test
AcceptChunk_CountAlways(extra, chunk_number, bytes_written) ==
    LET listed == IF chunk_number \notin Range(extra.uploaded_chunk_numbers)
                  THEN [extra EXCEPT
                          !.uploaded_chunk_numbers = Append(@, chunk_number)]
                  ELSE extra
    IN  [listed EXCEPT !.uploaded_chunks = @ + 1,
                       !.uploaded_bytes = @ + bytes_written]

\* "Update progress (Prevent double counting)": extra_data after a chunk
AcceptChunk(extra, chunk_number, bytes_written) ==
    LET counted == IF chunk_number \notin Range(extra.uploaded_chunk_numbers)
                   THEN [extra EXCEPT
                           !.uploaded_chunk_numbers = Append(@, chunk_number),
                           !.uploaded_chunks = @ + 1]
                   ELSE extra
    IN  [counted EXCEPT !.uploaded_bytes = @ + bytes_written]

\* step 7: is_last_chunk and task.status not in ["finalizing", "completed"]
ShouldTrigger(task) ==
    /\ task.extra_data.uploaded_chunks = task.extra_data.total_chunks
    /\ task.status \notin {FINALIZING, COMPLETED}

\* the file size the client of session tid declared (any, for other ids)
DeclaredFileSize(tid) ==
    IF tid \in TaskIds /\ tasks[tid].extra_data.present
    THEN tasks[tid].extra_data.file_size ELSE MaxFileSize

\* the chunk size of session tid (the default, for other ids)
DeclaredChunkSize(tid) ==
    IF tid \in TaskIds /\ tasks[tid].extra_data.present
    THEN tasks[tid].extra_data.chunk_size ELSE ChunkSize

ChunkNumbers == 0 .. TotalChunks(MaxFileSize, ChunkSize)

\* a new request is served by the lowest handler that is free
FreeUp == {r \in 1 .. left.slots : up[r].pc = "idle"}
NextUp == CHOOSE r \in FreeUp : \A q \in FreeUp : r <= q

\* steps 1.-5.6: load the row, validate; a rejected request ends here
UC_Load(user, tid, chunk_number, kind) ==
    /\ FreeUp # {}
    /\ tid \in Addressable
    /\ LET chunk_data == Payload(kind, chunk_number, DeclaredFileSize(tid), DeclaredChunkSize(tid))
           answer     == UploadCheck(tid, user, chunk_number, chunk_data)
       IN  IF answer = "ok"
           THEN /\ left.uploads > 0
                /\ up' = [up EXCEPT ![NextUp] =
                           [pc |-> "loaded", tid |-> tid, idx |-> chunk_number,
                            data |-> chunk_data, snap |-> tasks[tid], bw |-> 0]]
                /\ left' = [left EXCEPT !.uploads = @ - 1]
                /\ last' = last
           ELSE /\ left.probes > 0
                /\ last' = Answer("upload_chunk", tid, answer)
                /\ left' = [left EXCEPT !.probes = @ - 1]
                /\ up' = up
    /\ UNCHANGED <<tasks, temp, perm, fcsFiles, now, nextFileId, ini, fin,
                   ab, sw, os, stats, cq, job>>

\* step 6, storage.save_chunk: ValueError when the chunk is longer than
\* chunk_size, FileNotFoundError when the temp file is gone, else the write
UC_Save(r) ==
    /\ up[r].pc = "loaded"
    /\ LET q  == up[r]
           ok == /\ Len(q.data) <= q.snap.extra_data.chunk_size
                 /\ HasTemp(q.tid)
       IN  /\ temp' = IF ok
                      THEN [temp EXCEPT ![q.tid] =
                              WriteAt(@, q.idx * q.snap.extra_data.chunk_size, q.data)]
                      ELSE temp
           /\ up' = [up EXCEPT ![r].pc = IF ok THEN "saved" ELSE "savefail",
                               ![r].bw = IF ok THEN Len(q.data) ELSE 0]
    /\ UNCHANGED <<tasks, perm, fcsFiles, now, nextFileId, ini, fin, ab, sw,
                   os, last, left, stats, cq, job>>

\* variant: after a storage error only the result is recorded
UC_Commit_KeepStatus(r) ==
    /\ up[r].pc \in {"saved", "savefail"}
    /\ LET q == up[r]
       IN  IF q.pc = "saved"
           THEN /\ tasks' = [tasks EXCEPT ![q.tid].extra_data =
                               AcceptChunk(q.snap.extra_data, q.idx, q.bw)]
                /\ up' = [up EXCEPT ![r].pc = "committed"]
                /\ last' = last
           ELSE /\ tasks' = [tasks EXCEPT
                               ![q.tid].result = ErrorResult("save_chunk_failed", FALSE)]
                /\ up' = [up EXCEPT ![r] = IdleUp]
                /\ last' = Answer("upload_chunk", q.tid, "500")
    /\ UNCHANGED <<temp, perm, fcsFiles, now, nextFileId, ini, fin, ab, sw,
                   os, left, stats, cq, job>>

\* task.extra_data = extra_data; flag_modified; db.commit()
\* or, after a storage error: status failed, result, db.commit()   (500)
UC_Commit(r) ==
    /\ up[r].pc \in {"saved", "savefail"}
    /\ LET q == up[r]
       IN  IF q.pc = "saved"
           THEN /\ tasks' = [tasks EXCEPT ![q.tid].extra_data =
                               AcceptChunk(q.snap.extra_data, q.idx, q.bw)]
                /\ up' = [up EXCEPT ![r].pc = "committed"]
                /\ last' = last
           ELSE /\ tasks' = [tasks EXCEPT
                               ![q.tid].status = FAILED,
                               ![q.tid].result = ErrorResult("save_chunk_failed", FALSE)]
                /\ up' = [up EXCEPT ![r] = IdleUp]
                /\ last' = Answer("upload_chunk", q.tid, "500")
    /\ UNCHANGED <<temp, perm, fcsFiles, now, nextFileId, ini, fin, ab, sw,
                   os, left, stats, cq, job>>

\* the lowest finalizer slot not yet used
FreeFin == {f \in FinIds : fin[f].pc = "idle"}
NextFin == CHOOSE f \in FreeFin : \A g \in FreeFin : f <= g

\* steps 7.-9.: the row is re-read after the commit; on the last chunk
\* background_tasks.add_task(finalize_chunked_upload, task_id)   (202)
UC_Trigger(r) ==
    /\ up[r].pc = "committed"
    /\ LET q       == up[r]
           trigger == ShouldTrigger(tasks[q.tid])
       IN  /\ trigger => FreeFin # {}
           /\ fin' = IF trigger
                     THEN [fin EXCEPT ![NextFin] =
                             [IdleFin EXCEPT !.pc = "scheduled", !.tid = q.tid]]
                     ELSE fin
           /\ up' = [up EXCEPT ![r] = IdleUp]
           /\ last' = Answer("upload_chunk", q.tid, "202")
    /\ UNCHANGED <<tasks, temp, perm, fcsFiles, now, nextFileId, ini, ab,
                   sw, os, left, stats, cq, job>>

(* --------------------------- ORM flush --------------------------------- *)
\* db.commit() of a handler that loaded the row as `loaded` and now holds
\* `local`: the UPDATE sets exactly the columns whose value was changed
Flush(tid, loaded, local) ==
    [tasks EXCEPT ![tid] =
        [c \in DOMAIN local |->
            IF local[c] # loaded[c] THEN local[c] ELSE tasks[tid][c]]]

Without(f, k) == [x \in DOMAIN f \ {k} |-> f[x]]

(* -------------- finalize_chunked_upload (background task) -------------- *)
\* the run is over: only the session and the outcome are kept
FinDone(f, outcome) ==
    [IdleFin EXCEPT !.pc = "done", !.tid = fin[f].tid, !.outcome = outcome]

\* variant: a completed session is not short-circuited
FinalizeCheck_NoShortCircuit(task) ==
    IF task.status = FINALIZING THEN "busy"
    ELSE IF task.extra_data.uploaded_chunks # task.extra_data.total_chunks
    THEN "incomplete"
    ELSE "go"

\* variant: the chunk count is not validated again
FinalizeCheck_NoCount(task) ==
    IF task.status = COMPLETED /\ (task.result # NoResult \/ task.fcs_file_id # 0)
    THEN "stored"
    ELSE IF task.status = FINALIZING THEN "busy"
    ELSE "go"

\* the checks of steps 1.-2.: "go" when the run goes on to the storage
FinalizeCheck(task) ==
    IF task.status = COMPLETED /\ (task.result # NoResult \/ task.fcs_file_id # 0)
    THEN "stored"
    ELSE IF task.status = FINALIZING THEN "busy"
    ELSE IF task.extra_data.uploaded_chunks # task.extra_data.total_chunks
    THEN "incomplete"
    ELSE "go"

\* variant: the run marks the session as finalizing when it starts
F_Load_MarkFinalizing(f) ==
    /\ fin[f].pc = "scheduled"
    /\ LET task  == tasks[fin[f].tid]
           check == FinalizeCheck(task)
       IN  /\ fin' = [fin EXCEPT ![f] =
                       IF check = "go"
                       THEN [@ EXCEPT !.pc = "loaded", !.snap = task,
                                      !.file_id = nextFileId]
                       ELSE FinDone(f, check)]
           /\ nextFileId' = IF check = "go" THEN nextFileId + 1 ELSE nextFileId
           /\ tasks' = IF check = "go"
                       THEN [tasks EXCEPT ![fin[f].tid].status = FINALIZING]
                       ELSE tasks
    /\ UNCHANGED <<temp, perm, fcsFiles, now, ini, up, ab, sw, os, last,
                   left, stats, cq, job>>

\* 1.-3.: load the row; completed -> stored result; finalizing -> error;
\* uploaded_chunks != total_chunks -> error; else file_id = generate_short_id()
F_Load(f) ==
    /\ fin[f].pc = "scheduled"
    /\ LET task  == tasks[fin[f].tid]
           check == FinalizeCheck(task)
       IN  /\ fin' = [fin EXCEPT ![f] =
                       IF check = "go"
                       THEN [@ EXCEPT !.pc = "loaded", !.snap = task,
                                      !.file_id = nextFileId]
                       ELSE FinDone(f, check)]
           /\ nextFileId' = IF check = "go" THEN nextFileId + 1 ELSE nextFileId
    /\ UNCHANGED <<tasks, temp, perm, fcsFiles, now, ini, up, ab, sw, os,
                   last, left, stats, cq, job>>

\* the row a failing finalizer commits
FinFailed(task, kind) ==
    [task EXCEPT !.status = FAILED, !.result = ErrorResult(kind, TRUE),
                 !.completed_at = TRUE]

\* variant: the temp file is copied, not renamed
F_Move_Copy(f) ==
    /\ fin[f].pc = "loaded"
    /\ LET q == fin[f]
       IN  IF HasTemp(q.tid)
           THEN /\ perm' = [x \in DOMAIN perm \cup {q.file_id} |->
                              IF x = q.file_id
                              THEN [data |-> temp[q.tid], sid |-> q.tid]
                              ELSE perm[x]]
                /\ temp' = temp
                /\ fin' = [fin EXCEPT ![f].pc = "moved"]
                /\ UNCHANGED tasks
           ELSE /\ tasks' = Flush(q.tid, q.snap, FinFailed(q.snap, "finalize_failed"))
                /\ fin' = [fin EXCEPT ![f] = FinDone(f, "failed")]
                /\ UNCHANGED <<temp, perm>>
    /\ UNCHANGED <<fcsFiles, now, nextFileId, ini, up, ab, sw, os, last,
                   left, stats, cq, job>>

\* 4. storage.finalize_chunked_upload: temp_path.rename(final_path), or
\*    FileNotFoundError -> status failed, result with str(e), db.commit()
F_Move(f) ==
    /\ fin[f].pc = "loaded"
    /\ LET q == fin[f]
       IN  IF HasTemp(q.tid)
           THEN /\ perm' = [x \in DOMAIN perm \cup {q.file_id} |->
                              IF x = q.file_id
                              THEN [data |-> temp[q.tid], sid |-> q.tid]
                              ELSE perm[x]]
                /\ temp' = Without(temp, q.tid)
                /\ fin' = [fin EXCEPT ![f].pc = "moved"]
                /\ UNCHANGED tasks
           ELSE /\ tasks' = Flush(q.tid, q.snap, FinFailed(q.snap, "finalize_failed"))
                /\ fin' = [fin EXCEPT ![f] = FinDone(f, "failed")]
                /\ UNCHANGED <<temp, perm>>
    /\ UNCHANGED <<fcsFiles, now, nextFileId, ini, up, ab, sw, os, last,
                   left, stats, cq, job>>

\* storage.delete_file(file_id) of the compensating paths: the promoted
\* file is removed; when it raises (FileNotFoundError, or os.remove fails)
\* the exception leaves the except branch before the status is assigned
\* and the finalizer ends without having recorded anything
F_Compensate(f, why) ==
    IF fin[f].file_id \in DOMAIN perm
    THEN \/ /\ perm' = Without(perm, fin[f].file_id)
            /\ fin' = [fin EXCEPT ![f].pc = "cleaned", ![f].why = why]
            /\ left' = left
         \/ /\ left.faults > 0
            /\ perm' = perm
            /\ fin' = [fin EXCEPT ![f] = FinDone(f, "raised")]
            /\ left' = [left EXCEPT !.faults = @ - 1]
    ELSE /\ perm' = perm
         /\ fin' = [fin EXCEPT ![f] = FinDone(f, "raised")]
         /\ left' = left

\* 5. get_fcs_parameters(file_path) raises: the promoted file is deleted
F_ParseFail(f) ==
    /\ fin[f].pc = "moved"
    /\ F_Compensate(f, "parse")
    /\ UNCHANGED <<tasks, temp, fcsFiles, now, nextFileId, ini, up, ab, sw,
                   os, last, stats, cq, job>>

\* the FCSFile row of step 6 (sid: the session it was created for)
NewFcsFile(file_id, task, sid) ==
    [file_id |-> file_id, user_id |-> task.user_id,
     is_public |-> task.extra_data.is_public,
     file_size |-> task.extra_data.file_size, sid |-> sid]

\* 5.-6. the parser succeeds (it only reads the promoted file); FCSFile
\*    row, task completed with the result, one db.commit(); when that
\*    raises, the promoted file is deleted
F_Save(f, ok) ==
    /\ fin[f].pc = "moved"
    /\ LET q == fin[f]
       IN  IF ok
           THEN /\ fcsFiles' = Append(fcsFiles, NewFcsFile(q.file_id, q.snap, q.tid))
                /\ tasks' = Flush(q.tid, q.snap,
                               [q.snap EXCEPT
                                  !.fcs_file_id = Len(fcsFiles) + 1,
                                  !.status = COMPLETED,
                                  !.result = FileResult(q.file_id),
                                  !.completed_at = TRUE])
                /\ fin' = [fin EXCEPT ![f] = FinDone(f, "completed")]
                /\ UNCHANGED <<perm, left>>
           ELSE /\ F_Compensate(f, "save")
                /\ UNCHANGED <<tasks, fcsFiles>>
    /\ UNCHANGED <<temp, now, nextFileId, ini, up, ab, sw, os, last, stats,
                   cq, job>>

\* status failed, result with str(e), completed_at, db.commit()
F_Fail(f) ==
    /\ fin[f].pc = "cleaned"
    /\ LET q == fin[f]
       IN  tasks' = Flush(q.tid, q.snap,
                       FinFailed(q.snap, IF q.why = "parse" THEN "invalid_fcs"
                                         ELSE "metadata_failed"))
    /\ fin' = [fin EXCEPT ![f] = FinDone(f, "failed")]
    /\ UNCHANGED <<temp, perm, fcsFiles, now, nextFileId, ini, up, ab, sw,
                   os, last, left, stats, cq, job>>

\* storage.abort_chunked_upload as abort and the sweeps call it: temp_path.unlink()
\* when the file exists, which an OSError may keep from happening
Unlink(sid, ok) ==
    IF ok
    THEN temp' = Without(temp, sid) /\ left' = left
    ELSE /\ HasTemp(sid)
         /\ left.faults > 0
         /\ temp' = temp
         /\ left' = [left EXCEPT !.faults = @ - 1]

(* --------------- abort_chunked_upload (POST /upload/abort) ------------- *)
\* steps 1.-3. of abort_chunked_upload
AbortCheck(tid, user) ==
    IF tid \notin TaskIds THEN "404"
    ELSE IF tasks[tid].user_id # user THEN "403"
    ELSE IF tasks[tid].status = COMPLETED THEN "400"
    ELSE "ok"

\* variant: the status is left as it was loaded
AbortedTask_KeepStatus(task) ==
    [task EXCEPT !.result = ErrorResult("aborted", FALSE)]

\* 5. the row abort commits
AbortedTask(task) ==
    [task EXCEPT !.status = FAILED, !.result = ErrorResult("aborted", FALSE)]

A_Load(user, tid) ==
    /\ ab.pc \in {"idle", "done"}
    /\ tid \in Addressable
    /\ LET answer == AbortCheck(tid, user)
       IN  IF answer = "ok"
           THEN /\ left.aborts > 0
                /\ ab' = [pc |-> "loaded", tid |-> tid, snap |-> tasks[tid],
                          resp |-> "none"]
                /\ left' = [left EXCEPT !.aborts = @ - 1]
                /\ last' = last
           ELSE /\ left.probes > 0
                /\ last' = Answer("abort", tid, answer)
                /\ left' = [left EXCEPT !.probes = @ - 1]
                /\ ab' = ab
    /\ UNCHANGED <<tasks, temp, perm, fcsFiles, now, nextFileId, ini, up,
                   fin, sw, os, stats, cq, job>>

\* 4. storage.abort_chunked_upload: unlink the temp file if it exists; an
\*    exception is logged and the handler goes on
A_Storage(ok) ==
    /\ ab.pc = "loaded"
    /\ Unlink(ab.tid, ok)
    /\ ab' = [ab EXCEPT !.pc = "cleaned"]
    /\ UNCHANGED <<tasks, perm, fcsFiles, now, nextFileId, ini, up, fin, sw,
                   os, last, stats, cq, job>>

\* 5. status failed, result "Upload aborted by user", db.commit()   (200)
A_Commit ==
    /\ ab.pc = "cleaned"
    /\ tasks' = Flush(ab.tid, ab.snap, AbortedTask(ab.snap))
    /\ ab' = [IdleAb EXCEPT !.pc = "done", !.tid = ab.tid, !.resp = "200"]
    /\ last' = Answer("abort", ab.tid, "200")
    /\ UNCHANGED <<temp, perm, fcsFiles, now, nextFileId, ini, up, fin, sw,
                   os, left, stats, cq, job>>

(* ------------------- cleanup_expired_upload_sessions ------------------- *)
\* ids of a set in ascending order
RECURSIVE Ascending(_)
Ascending(S) ==
    IF S = {} THEN <<>>
    ELSE LET m == CHOOSE x \in S : \A y \in S : x <= y
         IN  <<m>> \o Ascending(S \ {m})

\* variant: the query does not look at the deadline
IsExpiredSession_NoDeadline(task) ==
    /\ task.task_type = CHUNKED_UPLOAD
    /\ task.status \in {PENDING, PROCESSING, FINALIZING, FAILED}

\* the filter of the expired-session query
IsExpiredSession(task) ==
    /\ task.task_type = CHUNKED_UPLOAD
    /\ task.status \in {PENDING, PROCESSING, FINALIZING, FAILED}
    /\ task.expires_at # 0
    /\ task.expires_at < now

E_Query ==
    /\ sw.pc = "idle"
    /\ left.sweeps > 0
    /\ sw' = [sw EXCEPT !.pc = "clean", !.marked = {},
                        !.todo = Ascending({t \in TaskIds : IsExpiredSession(tasks[t])})]
    /\ left' = [left EXCEPT !.sweeps = @ - 1]
    /\ UNCHANGED <<tasks, temp, perm, fcsFiles, now, nextFileId, ini, up,
                   fin, ab, os, last, stats, cq, job>>

\* for session in expired_sessions: storage.abort_chunked_upload;
\* session.status = EXPIRED (in the ORM session, written by the commit)
\* (an exception of the storage call is logged and the loop goes on)
E_Clean(ok) ==
    /\ sw.pc = "clean"
    /\ sw.todo # <<>>
    /\ Unlink(Head(sw.todo), ok)
    /\ sw' = [sw EXCEPT !.todo = Tail(@), !.marked = @ \cup {Head(sw.todo)}]
    /\ UNCHANGED <<tasks, perm, fcsFiles, now, nextFileId, ini, up, fin, ab,
                   os, last, stats, cq, job>>

\* db.commit() after the loop
E_Commit ==
    /\ sw.pc = "clean"
    /\ sw.todo = <<>>
    /\ tasks' = [t \in TaskIds |->
                   IF t \in sw.marked THEN [tasks[t] EXCEPT !.status = EXPIRED]
                   ELSE tasks[t]]
    /\ sw' = [sw EXCEPT !.pc = "idle", !.marked = {}]
    /\ UNCHANGED <<temp, perm, fcsFiles, now, nextFileId, ini, up, fin, ab,
                   os, last, left, stats, cq, job>>

(* --------------------- cleanup_orphaned_temp_files --------------------- *)
IsActiveSession(task) ==
    /\ task.task_type = CHUNKED_UPLOAD
    /\ task.status \in {PENDING, PROCESSING, FINALIZING}

\* active_task_ids
O_Query ==
    /\ os.pc = "idle"
    /\ left.orphans > 0
    /\ os' = [os EXCEPT !.pc = "queried",
                        !.active = {t \in TaskIds : IsActiveSession(tasks[t])}]
    /\ left' = [left EXCEPT !.orphans = @ - 1]
    /\ UNCHANGED <<tasks, temp, perm, fcsFiles, now, nextFileId, ini, up,
                   fin, ab, sw, last, stats, cq, job>>

\* storage.list_temp_upload_files(); orphaned_ids = [sid for sid in
\* temp_session_ids if int(sid) not in active_task_ids]; a stem that is no
\* number makes int() raise, which the outer except logs: the run is over
O_List ==
    /\ os.pc = "queried"
    /\ os' = IF \A s \in DOMAIN temp : IsNumber(s)
             THEN [os EXCEPT !.pc = "delete", !.active = {},
                             !.todo = Ascending({s \in DOMAIN temp : s \notin os.active})]
             ELSE [os EXCEPT !.pc = "idle", !.active = {}]
    /\ UNCHANGED <<tasks, temp, perm, fcsFiles, now, nextFileId, ini, up,
                   fin, ab, sw, last, left, stats, cq, job>>

\* for session_id in orphaned_ids: storage.abort_chunked_upload(session_id)
\* (an exception of the storage call is logged and the loop goes on)
O_Delete(ok) ==
    /\ os.pc = "delete"
    /\ os.todo # <<>>
    /\ Unlink(Head(os.todo), ok)
    /\ os' = [os EXCEPT !.todo = Tail(@)]
    /\ UNCHANGED <<tasks, perm, fcsFiles, now, nextFileId, ini, up, fin, ab,
                   sw, last, stats, cq, job>>

O_Done ==
    /\ os.pc = "delete"
    /\ os.todo = <<>>
    /\ os' = [os EXCEPT !.pc = "idle"]
    /\ UNCHANGED <<tasks, temp, perm, fcsFiles, now, nextFileId, ini, up,
                   fin, ab, sw, last, left, stats, cq, job>>

(* ------- trigger_statistics_calculation (POST /statistics/calculate) --- *)
\* steps 3.-5. of a request for the sample file that is served while no
\* other calculate request and no statistics job runs: an in-progress
\* statistics task is returned, else a pending statistics row is inserted
CalcCreate(user) ==
    /\ left.calcs > 0
    /\ ~\E t \in TaskIds : /\ tasks[t].task_type = STATISTICS
                           /\ tasks[t].fcs_file_id = 0
                           /\ tasks[t].status \in {PENDING, PROCESSING}
    /\ tasks' = Append(tasks, NewTask(STATISTICS, user, 0, NoExtra))
    /\ left' = [left EXCEPT !.calcs = @ - 1]
    /\ UNCHANGED <<temp, perm, fcsFiles, now, nextFileId, ini, up, fin, ab,
                   sw, os, last, stats, cq, job>>

\* 1. the files a request can name: the sample (file_id None, stored under
\*    "sample", here 0, fcs_file None) and the rows of fcs_files
CalcTargets ==
    {[file |-> 0, fcs |-> 0]} \cup
    {[file |-> fcsFiles[i].file_id, fcs |-> i] : i \in DOMAIN fcsFiles}

\* 2. a private file is served to its owner only
CalcPermitted(user, target) ==
    IF target.fcs = 0 \/ fcsFiles[target.fcs].is_public THEN TRUE
    ELSE fcsFiles[target.fcs].user_id = user

\* 4. the statistics tasks of a file that are pending or processing
InProgress(fcs) ==
    {t \in TaskIds : /\ tasks[t].fcs_file_id = fcs
                     /\ tasks[t].task_type = STATISTICS
                     /\ tasks[t].status \in {PENDING, PROCESSING}}

FirstOf(S) == CHOOSE t \in S : \A u \in S : t <= u

\* a new request is served by the lowest handler that is free
FreeCalc == {r \in CalcReqs : r <= left.slots /\ cq[r].pc = "idle"}
NextCalc == FirstOf(FreeCalc)

\* 1.-3. resolve the file; a record in fcs_statistics is returned as the
\*    cached result
S_Cache(user, target) ==
    /\ left.calcs > 0
    /\ FreeCalc # {}
    /\ CalcPermitted(user, target)
    /\ left' = [left EXCEPT !.calcs = @ - 1]
    /\ IF target.file \in stats
       THEN /\ last' = Answer("calculate", 0, "cached")
            /\ cq' = cq
       ELSE /\ cq' = [cq EXCEPT ![NextCalc] =
                       [pc |-> "checked", file |-> target.file,
                        fcs |-> target.fcs, user |-> user]]
            /\ last' = last
    /\ UNCHANGED <<tasks, temp, perm, fcsFiles, now, nextFileId, ini, up,
                   fin, ab, sw, os, stats, job>>

\* 4. a pending or processing statistics task of the file is returned
S_Existing(r) ==
    /\ cq[r].pc = "checked"
    /\ IF InProgress(cq[r].fcs) # {}
       THEN /\ last' = Answer("calculate", FirstOf(InProgress(cq[r].fcs)),
                              "in_progress")
            /\ cq' = [cq EXCEPT ![r] = IdleCalc]
       ELSE /\ cq' = [cq EXCEPT ![r].pc = "clear"]
            /\ last' = last
    /\ UNCHANGED <<tasks, temp, perm, fcsFiles, now, nextFileId, ini, up,
                   fin, ab, sw, os, left, stats, job>>

\* BackgroundTask(task_type="statistics", fcs_file_id=..., status="pending")
NewStatisticsTask(user, fcs) ==
    [NewTask(STATISTICS, user, 0, NoExtra) EXCEPT !.fcs_file_id = fcs]

\* 5.-7. insert the pending row, db.commit(), add_task(
\*    calculate_statistics_task, task_id, ...)   (202)
S_Commit(r) ==
    /\ cq[r].pc = "clear"
    /\ tasks' = Append(tasks, NewStatisticsTask(cq[r].user, cq[r].fcs))
    /\ job' = [t \in DOMAIN job \cup {Len(tasks) + 1} |->
                 IF t \in DOMAIN job THEN job[t]
                 ELSE [pc |-> "scheduled", file |-> cq[r].file]]
    /\ cq' = [cq EXCEPT ![r] = IdleCalc]
    /\ last' = Answer("calculate", Len(tasks) + 1, "202")
    /\ UNCHANGED <<temp, perm, fcsFiles, now, nextFileId, ini, up, fin, ab,
                   sw, os, left, stats>>

(* ------------- calculate_statistics_task (background task) ------------- *)
\* {"total_events": ..., "statistics": ...}
StatisticsResult == [kind |-> "statistics", file_id |-> 0, detail |-> FALSE]

\* load the row, status processing, db.commit()
J_Start(t) ==
    /\ t \in DOMAIN job
    /\ job[t].pc = "scheduled"
    /\ tasks' = [tasks EXCEPT ![t].status = PROCESSING]
    /\ job' = [job EXCEPT ![t].pc = "running"]
    /\ UNCHANGED <<temp, perm, fcsFiles, now, nextFileId, ini, up, fin, ab,
                   sw, os, last, left, stats, cq>>

\* calculate_fcs_statistics, then one db.commit() of the FCSStatistics
\* record and the completed task; file_id is unique, so the commit raises
\* when the file has a record already.  Whatever raises, the except branch
\* commits status failed with str(e)
J_Finish(t, parsed) ==
    /\ t \in DOMAIN job
    /\ job[t].pc = "running"
    /\ IF parsed /\ job[t].file \notin stats
       THEN /\ stats' = stats \cup {job[t].file}
            /\ tasks' = [tasks EXCEPT ![t].status = COMPLETED,
                                      ![t].result = StatisticsResult,
                                      ![t].completed_at = TRUE]
       ELSE /\ stats' = stats
            /\ tasks' = [tasks EXCEPT
                           ![t].status = FAILED,
                           ![t].result = ErrorResult("statistics_failed", TRUE),
                           ![t].completed_at = TRUE]
    /\ job' = [job EXCEPT ![t].pc = "done"]
    /\ UNCHANGED <<temp, perm, fcsFiles, now, nextFileId, ini, up, fin, ab,
                   sw, os, last, left, cq>>

(* --------------------------- specification ----------------------------- *)
InitSteps ==
    \/ \E fs \in left.sizes, cs \in left.chunks, pub \in Visibilities :
          InitCreate(Owner, fs, cs, pub)
    \/ \E ok \in BOOLEAN : InitAllocate(ok)
    \/ InitCommit

UploadSteps ==
    \/ \E u \in Users, t \in 1 .. Len(tasks) + 1, i \in ChunkNumbers,
          k \in PayloadKinds : UC_Load(u, t, i, k)
    \/ \E r \in Reqs : UC_Save(r)
    \/ \E r \in Reqs : UC_Commit(r)
    \/ \E r \in Reqs : UC_Trigger(r)

FinalizeSteps ==
    \/ \E f \in FinIds : F_Load(f)
    \/ \E f \in FinIds : F_Move(f)
    \/ \E f \in FinIds : F_ParseFail(f)
    \/ \E f \in FinIds, ok \in BOOLEAN : F_Save(f, ok)
    \/ \E f \in FinIds : F_Fail(f)

AbortSteps ==
    \/ \E u \in Users, t \in 1 .. Len(tasks) + 1 : A_Load(u, t)
    \/ \E ok \in BOOLEAN : A_Storage(ok)
    \/ A_Commit

SweepSteps ==
    \/ Tick
    \/ E_Query
    \/ \E ok \in BOOLEAN : E_Clean(ok)
    \/ E_Commit
    \/ O_Query
    \/ O_List
    \/ \E ok \in BOOLEAN : O_Delete(ok)
    \/ O_Done

StatisticsSteps ==
    \/ \E u \in Users, target \in CalcTargets : S_Cache(u, target)
    \/ \E r \in CalcReqs : S_Existing(r)
    \/ \E r \in CalcReqs : S_Commit(r)
    \/ \E t \in TaskIds : J_Start(t)
    \/ \E t \in TaskIds, parsed \in BOOLEAN : J_Finish(t, parsed)

Next ==
    \/ InitRejectFilename
    \/ InitSteps
    \/ UploadSteps
    \/ FinalizeSteps
    \/ AbortSteps
    \/ SweepSteps
    \/ CalcCreate(Owner)
    \/ StatisticsSteps

Spec == Init /\ [][Next]_vars

\* concurrent chunk uploads and finalizer runs of one session
TrafficNext == InitSteps \/ UploadSteps \/ FinalizeSteps
TrafficSpec == InitWith(TrafficBudget) /\ [][TrafficNext]_vars

\* abort against uploads and finalizer
AbortNext == InitSteps \/ UploadSteps \/ FinalizeSteps \/ AbortSteps
AbortSpec == InitWith(AbortBudget) /\ [][AbortNext]_vars

\* the sweeps against uploads and finalizer
SweepNext == InitSteps \/ UploadSteps \/ FinalizeSteps \/ SweepSteps
SweepSpec == InitWith(SweepBudget) /\ [][SweepNext]_vars

\* everything on one session
MixedNext ==
    InitSteps \/ UploadSteps \/ FinalizeSteps \/ AbortSteps \/ SweepSteps
MixedSpec == InitWith(MixedBudget) /\ [][MixedNext]_vars

\* the answers to the requests of both users
AnswerNext ==
    \/ InitRejectFilename
    \/ InitSteps
    \/ UploadSteps
    \/ FinalizeSteps
    \/ AbortSteps
    \/ CalcCreate(Owner)
AnswerSpec == InitWith(AnswerBudget) /\ [][AnswerNext]_vars

(* ============================== claims ================================= *)
Numbers(t) == Range(tasks[t].extra_data.uploaded_chunk_numbers)
Uploads == {t \in TaskIds : tasks[t].task_type = CHUNKED_UPLOAD}
PermOf(t) == {x \in DOMAIN perm : perm[x].sid = t}
FcsFilesOf(t) == {i \in DOMAIN fcsFiles : fcsFiles[i].sid = t}
FinalizersOf(t) == {f \in FinIds : fin[f].pc # "idle" /\ fin[f].tid = t}

\* handler r commits an accepted chunk in this step
CommitsChunk(r) == up[r].pc = "saved" /\ up'[r].pc = "committed"

\* C1: idempotent accounting.  When upload_chunk commits a chunk whose index
\* is already in uploaded_chunk_numbers (and nobody changed the row since
\* the handler loaded it), uploaded_chunks and uploaded_bytes keep their
\* values.
C1_IdempotentAccounting ==
    [][\A r \in Reqs :
          LET t == up[r].tid
          IN  (/\ CommitsChunk(r)
               /\ up[r].snap.extra_data = tasks[t].extra_data
               /\ up[r].idx \in Numbers(t))
              => /\ tasks'[t].extra_data.uploaded_chunks
                        = tasks[t].extra_data.uploaded_chunks
                 /\ tasks'[t].extra_data.uploaded_bytes
                        = tasks[t].extra_data.uploaded_bytes]_vars

\* C2: the finalizer is scheduled at most once per session, and only when
\* every index 0..total_chunks-1 has been accepted.
C2_FinalizerScheduledOnce ==
    [][\A r \in Reqs :
          LET t == up[r].tid
          IN  (up[r].pc = "committed" /\ up'[r].pc = "idle" /\ fin' # fin)
              => /\ FinalizersOf(t) = {}
                 /\ Numbers(t) = 0 .. tasks[t].extra_data.total_chunks - 1]_vars

\* C3: no accepted chunk is lost.  When upload_chunk commits chunk i, every
\* index recorded before the commit is still recorded after it, and so is i.
C3_NoAcceptedChunkLost ==
    [][\A r \in Reqs :
          LET t == up[r].tid
          IN  CommitsChunk(r)
              => /\ Numbers(t) \cup {up[r].idx}
                        \subseteq Range(tasks'[t].extra_data.uploaded_chunk_numbers)
                 /\ tasks'[t].extra_data.uploaded_chunks
                        >= tasks[t].extra_data.uploaded_chunks]_vars

\* C4: finalization is re-entrancy safe.  Once one run of the finalizer has
\* recorded a session as completed, no step of another run for the same
\* session (whether it started before or after) changes the task row, the
\* permanent files or the FCSFile rows, and such a run ends with the stored
\* result or an error that records nothing.
C4_FinalizeReentrant ==
    [][\A f \in FinIds :
          LET t == fin[f].tid
          IN  (/\ fin[f].pc # "idle"
               /\ fin'[f] # fin[f]
               /\ \E g \in FinalizersOf(t) \ {f} : fin[g].outcome = "completed")
              => /\ tasks'[t] = tasks[t]
                 /\ perm' = perm
                 /\ fcsFiles' = fcsFiles
                 /\ fin'[f].pc = "done"
                    => fin'[f].outcome \in {"stored", "busy", "incomplete"}]_vars

\* C5: in every reachable state of every upload session uploaded_chunks is
\* the number of entries of uploaded_chunk_numbers, which holds no index
\* twice and only indices below total_chunks.
C5_CounterMatchesIndices ==
    \A t \in Uploads :
        LET e == tasks[t].extra_data
        IN  /\ e.uploaded_chunks = Len(e.uploaded_chunk_numbers)
            /\ Cardinality(Numbers(t)) = Len(e.uploaded_chunk_numbers)
            /\ \A i \in Numbers(t) : i >= 0 /\ i < e.total_chunks

\* a session whose index 0 was delivered again after all chunks had arrived
C5_Witness ==
    \E t \in Uploads :
        LET e == tasks[t].extra_data
        IN  /\ e.uploaded_chunks = e.total_chunks
            /\ e.uploaded_bytes > e.file_size

\* C6: status is monotonic.  The only status changes are pending->processing,
\* pending->failed, processing->completed, processing->failed and the decay
\* of a past-deadline pending/processing/failed task to expired.
C6_StatusMonotonic ==
    [][\A t \in TaskIds :
          LET old == tasks[t].status
              new == tasks'[t].status
          IN  new # old
              => \/ <<old, new>> \in {<<PENDING, PROCESSING>>, <<PENDING, FAILED>>,
                                      <<PROCESSING, COMPLETED>>, <<PROCESSING, FAILED>>}
                 \/ /\ new = EXPIRED
                    /\ old \in {PENDING, PROCESSING, FAILED}
                    /\ tasks[t].expires_at < now]_vars

\* C7: a failed upload leaves nothing visible: while the status of a session
\* is failed there is no permanent file promoted from it and no FCSFile row
\* created for it.
C7_FailedLeavesNothing ==
    \A t \in Uploads :
        tasks[t].status = FAILED => PermOf(t) = {} /\ FcsFilesOf(t) = {}

\* the size the session declared for chunk i: chunk_size, and what is left
\* of file_size for the last one
DeclaredSize(i, e) ==
    IF i = e.total_chunks - 1
    THEN e.file_size - e.chunk_size * (e.total_chunks - 1)
    ELSE e.chunk_size

\* a chunk that validation has to refuse
BadChunk(t, i, data) ==
    LET e == tasks[t].extra_data
    IN  \/ i >= e.total_chunks
        \/ Len(data) # DeclaredSize(i, e)
        \/ i = 0 /\ (Len(data) < 3 \/ <<data[1], data[2], data[3]>> # <<70, 67, 83>>)

ClientChunk(t, i, k) == Payload(k, i, DeclaredFileSize(t), DeclaredChunkSize(t))

\* C8: an upload_chunk request with an index >= total_chunks, a wrong byte
\* length or (chunk 0) no FCS magic changes neither the task rows nor the
\* files nor any handler, and when the session is the caller's and still
\* pending/processing it is answered with the validation error.
C8_ValidationRejectsWithoutEffect ==
    [][\A u \in Users, t \in TaskIds, i \in ChunkNumbers, k \in PayloadKinds :
          (/\ tasks[t].task_type = CHUNKED_UPLOAD
           /\ BadChunk(t, i, ClientChunk(t, i, k))
           /\ UC_Load(u, t, i, k))
          => /\ UNCHANGED <<tasks, temp, perm, fcsFiles, up, fin>>
             /\ (tasks[t].user_id = u /\ tasks[t].status \in {PENDING, PROCESSING})
                => /\ last'.op = "upload_chunk"
                   /\ last'.resp \in {"400index", "400size", "400format"}]_vars

\* an oversized chunk was refused: the session is still processing, has
\* counted nothing and its temp file is as allocated
C8_Witness ==
    /\ last.op = "upload_chunk"
    /\ last.resp = "400size"
    /\ last.tid \in Uploads
    /\ tasks[last.tid].status = PROCESSING
    /\ tasks[last.tid].extra_data.uploaded_chunks = 0
    /\ HasTemp(last.tid)
    /\ \A p \in DOMAIN temp[last.tid] : temp[last.tid][p] = 0

\* C9: upload_chunk on an unknown task id, a task that is not a
\* chunked_upload, another user's task or a completed/failed/expired session
\* is rejected and changes no row and no file; so is abort on an unknown
\* task id or another user's task.
C9_RejectedRequestsTouchNothing ==
    [][/\ \A u \in Users, t \in 1 .. Len(tasks) + 1, i \in ChunkNumbers,
             k \in PayloadKinds :
             (/\ \/ t \notin TaskIds
                 \/ tasks[t].task_type # CHUNKED_UPLOAD
                 \/ tasks[t].user_id # u
                 \/ tasks[t].status \in {COMPLETED, FAILED, EXPIRED}
              /\ UC_Load(u, t, i, k))
             => /\ UNCHANGED <<tasks, temp, perm, fcsFiles, up, fin>>
                /\ last'.op = "upload_chunk"
                /\ last'.resp \in {"404", "400type", "403", "400status"}
       /\ \A u \in Users, t \in 1 .. Len(tasks) + 1 :
             ((t \notin TaskIds \/ tasks[t].user_id # u) /\ A_Load(u, t))
             => /\ UNCHANGED <<tasks, temp, perm, fcsFiles, ab>>
                /\ last'.op = "abort"
                /\ last'.resp \in {"404", "403"}]_vars

\* a chunk sent to a pending statistics task was refused
C9_Witness ==
    /\ last.op = "upload_chunk"
    /\ last.resp = "400type"
    /\ last.tid \in TaskIds
    /\ tasks[last.tid].task_type = STATISTICS
    /\ tasks[last.tid].status = PENDING
    /\ tasks[last.tid].result = NoResult

C11_AbortOnlyNonTerminal ==
    [][(/\ A_Commit
        /\ ab.snap.task_type = CHUNKED_UPLOAD
        /\ ab.snap.status \in {FAILED, EXPIRED}
        /\ tasks[ab.tid] = ab.snap)
       => /\ tasks'[ab.tid].status = tasks[ab.tid].status
          /\ tasks'[ab.tid].result = tasks[ab.tid].result
          /\ ab'.resp # "200"]_vars

\* a finalizer run has moved the temp file of session t and has not yet
\* recorded completed or failed
Promoting(t) ==
    \E f \in FinIds : fin[f].tid = t /\ fin[f].pc \in {"moved", "cleaned"}

\* C12: once the finalizer has begun promoting a session's temp file, an
\* abort request of the owner for that session is rejected: the handler
\* does not go on to the storage and the commit, and nothing changes.
C12_NoAbortWhilePromoting ==
    [][\A u \in Users, t \in TaskIds :
          (/\ Promoting(t)
           /\ tasks[t].user_id = u
           /\ A_Load(u, t))
          => /\ ab' = ab
             /\ UNCHANGED <<tasks, temp, perm, fcsFiles>>]_vars

\* C13: a completed upload task is immutable.  No step of any handler,
\* finalizer run or sweep changes the status, the result or the file
\* association of a task that is completed, or removes or rewrites its
\* permanent file.
C13_CompletedImmutable ==
    [][\A t \in Uploads :
          tasks[t].status = COMPLETED
          => /\ tasks'[t].status = COMPLETED
             /\ tasks'[t].result = tasks[t].result
             /\ tasks'[t].fcs_file_id = tasks[t].fcs_file_id
             /\ \A x \in PermOf(t) : x \in DOMAIN perm' /\ perm'[x] = perm[x]]_vars


\* C14: in every reachable state every task record, upload or statistics,
\* has a result exactly when its status is completed or failed; records in
\* pending, processing or expired carry none.
C14_ResultIffFinished ==
    \A t \in TaskIds :
        (tasks[t].result # NoResult) <=> (tasks[t].status \in {COMPLETED, FAILED})

\* C15: expires_at is set only on chunked_upload tasks whose status is
\* pending or processing; statistics tasks never have it and an upload task
\* that reached completed, failed or expired no longer has it.
C15_ExpiryOnlyWhileOpen ==
    \A t \in TaskIds :
        tasks[t].expires_at # 0
        => /\ tasks[t].task_type = CHUNKED_UPLOAD
           /\ tasks[t].status \in {PENDING, PROCESSING}

(* ------------------------- the happy path ------------------------------ *)
\* one session whose storage calls, parser and commits all succeed, with no
\* abort, no sweep and no clock: init, concurrent chunk uploads, finalizer
HappyNext ==
    \/ \E fs \in left.sizes, cs \in left.chunks, pub \in Visibilities :
          InitCreate(Owner, fs, cs, pub)
    \/ InitAllocate(TRUE)
    \/ InitCommit
    \/ UploadSteps
    \/ \E f \in FinIds : F_Load(f)
    \/ \E f \in FinIds : F_Move(f)
    \/ \E f \in FinIds : F_Save(f, TRUE)

\* the server runs every handler it started to its response, and starlette
\* runs every background task that was added once the response is sent;
\* nothing obliges a client to send a request
HappyFair ==
    /\ WF_vars(InitAllocate(TRUE) \/ InitCommit)
    /\ \A r \in Reqs : WF_vars(UC_Save(r) \/ UC_Commit(r) \/ UC_Trigger(r))
    /\ \A f \in FinIds : WF_vars(F_Load(f) \/ F_Move(f) \/ F_Save(f, TRUE))

HappySpec == InitWith(TrafficBudget) /\ [][HappyNext]_vars /\ HappyFair

\* chunk i of session t is in the session's temp file as the client sent it
Written(t, i) ==
    LET e == tasks[t].extra_data
    IN  /\ HasTemp(t)
        /\ \A p \in 1 .. DeclaredSize(i, e) :
              /\ i * e.chunk_size + p <= Len(temp[t])
              /\ temp[t][i * e.chunk_size + p] = FileByte(i * e.chunk_size + p)

\* every index of session t has been accepted: each chunk was written and
\* every upload_chunk request for the session has been answered
AllAccepted(t) ==
    /\ t \in Uploads
    /\ tasks[t].status = PROCESSING
    /\ \A i \in 0 .. tasks[t].extra_data.total_chunks - 1 : Written(t, i)
    /\ \A r \in Reqs : up[r].pc = "idle"

\* session t is completed with everything the finalizer leaves behind
FullyCompleted(t) ==
    /\ t \in Uploads
    /\ tasks[t].status = COMPLETED
    /\ tasks[t].result.kind = "file"
    /\ tasks[t].result.file_id \in PermOf(t)
    /\ tasks[t].fcs_file_id \in FcsFilesOf(t)
    /\ fcsFiles[tasks[t].fcs_file_id].file_id = tasks[t].result.file_id
    /\ ~HasTemp(t)

\* C16: liveness of the happy path.  Once every index of a session has been
\* accepted, and the storage move, the parser and the commit succeed and
\* nobody aborts, the session eventually is completed, with a result naming
\* the permanent file, an FCSFile row linked to the task, the permanent file
\* present and the temp file gone, without any further client request.
C16_HappyPathCompletes ==
    \A t \in 1 .. MaxSessions : AllAccepted(t) ~> FullyCompleted(t)

(* ----------------------- chunk arithmetic ------------------------------ *)
\* the sizes clients declare at init: any positive file_size, and
\* chunk_size between the smallest the form admits and one more
AllFileSizes == 1 .. MaxFileSize
ChunkSizes == {ChunkSize, ChunkSize + 1}

\* one session of every (file_size, chunk_size), its chunks uploaded one
\* after another
ChunkBudget ==
    [Budget(MaxSessions, 0, MaxUploads - 1, 0, 0, 0, 0, 1, AllFileSizes, 0)
        EXCEPT !.chunks = ChunkSizes]

ChunkNext == InitSteps \/ UploadSteps \/ FinalizeSteps
ChunkSpec == InitWith(ChunkBudget) /\ [][ChunkNext]_vars

\* the least n with n * b >= a
Ceil(a, b) == CHOOSE n \in 0 .. a : n * b >= a /\ (n - 1) * b < a

\* the expected sizes of indices 0 .. n-1 added up
RECURSIVE SumExpected(_, _)
SumExpected(e, n) ==
    IF n = 0 THEN 0 ELSE ExpectedSize(n - 1, e) + SumExpected(e, n - 1)

\* C17: for every file_size > 0 and chunk_size > 0 init computes
\* total_chunks = ceil(file_size / chunk_size); the size upload_chunk
\* expects is chunk_size below the last index and
\* file_size - chunk_size * (total_chunks - 1) for the last one; the
\* expected sizes of all indices add up to file_size.
C17_ChunkArithmetic ==
    \A t \in Uploads :
        LET e == tasks[t].extra_data
        IN  /\ e.total_chunks = Ceil(e.file_size, e.chunk_size)
            /\ \A i \in 0 .. e.total_chunks - 1 :
                  ExpectedSize(i, e) = DeclaredSize(i, e)
            /\ SumExpected(e, e.total_chunks) = e.file_size

\* a session whose file is no multiple of its chunk size and whose shorter
\* last chunk was accepted after the first one
C17_Witness ==
    \E t \in Uploads :
        LET e == tasks[t].extra_data
        IN  /\ e.file_size % e.chunk_size # 0
            /\ e.total_chunks > 1
            /\ e.uploaded_chunk_numbers = <<0, e.total_chunks - 1>>
            /\ e.uploaded_bytes = e.file_size

\* C18: chunk size validation is strict.  On a session of the caller that
\* still takes chunks, upload_chunk lets a chunk for index i through only
\* when its length is exactly the size declared for i; a longer and a
\* shorter chunk are answered with the size error and change nothing, and
\* a last chunk below chunk_size is let through exactly when its length is
\* what is left of the file.
C18_StrictChunkSize ==
    [][\A u \in Users, t \in Uploads, i \in ChunkNumbers, k \in PayloadKinds :
          LET e    == tasks[t].extra_data
              data == ClientChunk(t, i, k)
          IN  (/\ tasks[t].user_id = u
               /\ tasks[t].status \in {PENDING, PROCESSING}
               /\ i < e.total_chunks
               /\ UC_Load(u, t, i, k))
              => /\ up' # up => Len(data) = DeclaredSize(i, e)
                 /\ Len(data) # DeclaredSize(i, e)
                    => /\ last'.resp = "400size"
                       /\ UNCHANGED <<tasks, temp, perm, fcsFiles, up, fin>>
                 /\ (Len(data) = DeclaredSize(i, e) /\ (i = 0 => ValidFcsHeader(data)))
                    => \E r \in Reqs : up[r].pc = "idle" /\ up'[r].pc = "loaded"
                                       /\ up'[r].data = data]_vars

\* a chunk of the wrong length was refused with the size error, and the
\* last chunk, shorter than chunk_size, is on its way to the temp file
C18_Witness ==
    /\ last.op = "upload_chunk"
    /\ last.resp = "400size"
    /\ \E r \in Reqs :
          LET e == tasks[up[r].tid].extra_data
          IN  /\ up[r].pc = "loaded"
              /\ up[r].idx = e.total_chunks - 1
              /\ Len(up[r].data) < e.chunk_size
              /\ Len(up[r].data) = e.file_size - e.chunk_size * (e.total_chunks - 1)

\* C19: sequential idempotence of finalization.  A run of
\* finalize_chunked_upload that finds the session completed returns the
\* stored result and changes nothing: no file id is generated, no file is
\* moved or deleted, no FCSFile row is added, and status, result and
\* completed_at stay as they were.
C19_FinalizeCompletedIsNoOp ==
    [][\A f \in FinIds :
          (/\ fin[f].pc = "scheduled"
           /\ tasks[fin[f].tid].status = COMPLETED
           /\ F_Load(f))
          => /\ fin'[f].pc = "done"
             /\ fin'[f].outcome = "stored"
             /\ UNCHANGED <<tasks, temp, perm, fcsFiles, nextFileId>>]_vars

\* a second run for a session that the first run completed has returned
\* the stored result, and the session is as the first run left it
C19_Witness ==
    \E f, g \in FinIds :
        /\ f # g
        /\ fin[f].tid = fin[g].tid
        /\ fin[f].pc = "done" /\ fin[f].outcome = "completed"
        /\ fin[g].pc = "done" /\ fin[g].outcome = "stored"
        /\ FullyCompleted(fin[f].tid)

\* C20: a run of finalize_chunked_upload that finds uploaded_chunks
\* different from total_chunks fails with the incomplete error before it
\* touches the storage: status and result of the task, the temp file and
\* the permanent files are unchanged.
C20_FinalizeIncompleteFailsEarly ==
    [][\A f \in FinIds :
          LET task == tasks[fin[f].tid]
          IN  (/\ fin[f].pc = "scheduled"
               /\ task.status \notin {COMPLETED, FINALIZING}
               /\ task.extra_data.uploaded_chunks # task.extra_data.total_chunks
               /\ F_Load(f))
              => /\ fin'[f].pc = "done"
                 /\ fin'[f].outcome = "incomplete"
                 /\ UNCHANGED <<tasks, temp, perm, fcsFiles, nextFileId>>]_vars

\* a run has ended with the incomplete error on a session that is still
\* processing and still has its temp file
C20_Witness ==
    \E f \in FinIds :
        /\ fin[f].pc = "done"
        /\ fin[f].outcome = "incomplete"
        /\ tasks[fin[f].tid].status = PROCESSING
        /\ tasks[fin[f].tid].extra_data.uploaded_chunks
              # tasks[fin[f].tid].extra_data.total_chunks
        /\ HasTemp(fin[f].tid)

\* C21: every failure recorded on an upload task stores a fixed generic
\* message: the stored result never carries the text of the underlying
\* exception (which names files and internal detail).
C21_GenericFailureResult ==
    \A t \in Uploads : tasks[t].result.detail = FALSE

\* C22: when the temp file cannot be allocated during init the session is
\* not dropped: its task row stays, with status failed and the generic
\* message, and the caller still receives the task id of that row.
C22_InitFailureKeepsHandle ==
    [][(ini.pc = "allocfail" /\ InitCommit)
       => /\ Len(tasks') = Len(tasks)
          /\ tasks'[ini.tid].status = FAILED
          /\ tasks'[ini.tid].result = ErrorResult("init_failed", FALSE)
          /\ last'.op = "init"
          /\ last'.tid = ini.tid]_vars

(* ----------------------- the expired-session sweep --------------------- *)
\* two sessions started more than a lifetime apart, chunk uploads, the
\* finalizer of a one-chunk file, and a run of the expired-session sweep
ExpiryBudget ==
    Budget(MaxSessions + 1, 0, MaxUploads - 1, 0, MaxSweeps, 0, 1, 1,
           {ChunkSize, MaxFileSize}, 0)

ExpirySweepStep == E_Query \/ (\E ok \in BOOLEAN : E_Clean(ok)) \/ E_Commit

ExpiryNext ==
    \/ InitSteps
    \/ UploadSteps
    \/ FinalizeSteps
    \/ Tick
    \/ E_Query
    \/ \E ok \in BOOLEAN : E_Clean(ok)
    \/ E_Commit

ExpirySpec == InitWith(ExpiryBudget) /\ [][ExpiryNext]_vars

PastDeadline(t) == tasks[t].expires_at # 0 /\ tasks[t].expires_at < now

\* C23: one run of the expired-session sweep takes every chunked_upload
\* task in pending, processing or failed whose expires_at is in the past,
\* removes its temp file and sets it to expired; it leaves status and temp
\* file of every upload session whose expires_at is in the future or null
\* as they are.
C23_ExpirySweep ==
    [][/\ E_Query
          => Range(sw'.todo) =
                {t \in Uploads : /\ tasks[t].status \in {PENDING, PROCESSING, FAILED}
                                 /\ PastDeadline(t)}
       /\ E_Clean(TRUE) => Head(sw.todo) \notin DOMAIN temp'
       /\ E_Commit
          => \A t \in TaskIds :
                IF t \in sw.marked
                THEN tasks'[t].status = EXPIRED /\ t \notin DOMAIN temp'
                ELSE tasks'[t] = tasks[t]
       /\ sw.pc = "clean"
          => /\ E_Commit => sw.todo = <<>>
             /\ \A t \in sw.marked \cup Range(sw.todo) : PastDeadline(t)
       /\ ExpirySweepStep
          => \A t \in Uploads :
                ~PastDeadline(t)
                => /\ tasks'[t].status = tasks[t].status
                   /\ HasTemp(t) <=> t \in DOMAIN temp'
                   /\ HasTemp(t) => temp'[t] = temp[t]]_vars

\* after the run: a session left in processing past its deadline is
\* expired and has no temp file, a younger one is processing with its file
C23_Witness ==
    /\ sw.pc = "idle"
    /\ left.sweeps = 0
    /\ \E s, t \in Uploads :
          /\ PastDeadline(s) /\ tasks[s].status = EXPIRED /\ ~HasTemp(s)
          /\ tasks[s].extra_data.uploaded_chunks > 0
          /\ ~PastDeadline(t) /\ tasks[t].status = PROCESSING /\ HasTemp(t)

(* --------------------------- the orphan sweep -------------------------- *)
\* no request is being handled and no finalizer is running
Quiet ==
    /\ ini.pc = "idle"
    /\ \A r \in Reqs : up[r].pc = "idle"
    /\ ab.pc \in {"idle", "done"}
    /\ \A f \in FinIds : fin[f].pc \in {"idle", "done"}

\* two sessions, one of which may be aborted while its temp file cannot be
\* unlinked, and a run of the orphan sweep while nothing else runs
OrphanBudget(strays) ==
    [Budget(MaxSessions + 1, 0, MaxUploads - 1, MaxAborts, 0, MaxSweeps, 0, 1,
            {MaxFileSize}, 0)
        EXCEPT !.strays = strays, !.faults = MaxFaults]

\* the files found in .tmp/uploads when the application starts
OrphanInit == \E strays \in SUBSET {StrayId, BadStem} : InitWith(OrphanBudget(strays))

OrphanSweepStep == O_Query \/ O_List \/ (\E ok \in BOOLEAN : O_Delete(ok)) \/ O_Done

OrphanNext ==
    \/ os.pc = "idle" /\ InitSteps
    \/ os.pc = "idle" /\ UploadSteps
    \/ os.pc = "idle" /\ FinalizeSteps
    \/ os.pc = "idle" /\ AbortSteps
    \/ Quiet /\ O_Query
    \/ O_List
    \/ O_Delete(TRUE)
    \/ O_Done

OrphanSpec == OrphanInit /\ [][OrphanNext]_vars

\* the temp file sid belongs to an upload session that is not terminal
OfOpenSession(sid) ==
    /\ sid \in Uploads
    /\ tasks[sid].status \in {PENDING, PROCESSING}

\* C24: one run of the orphan sweep without concurrent traffic deletes
\* exactly the temp files whose session id is not the id of a
\* chunked_upload task in pending or processing: when the run is over no
\* other temp file is left, no file of a pending or processing session was
\* deleted, and no task row was modified.
C24_OrphanSweepExact ==
    [][/\ OrphanSweepStep => tasks' = tasks
       /\ OrphanSweepStep
          => \A s \in DOMAIN temp :
                OfOpenSession(s) => s \in DOMAIN temp' /\ temp'[s] = temp[s]
       /\ (os.pc # "idle" /\ os'.pc = "idle")
          => \A s \in DOMAIN temp' : OfOpenSession(s)]_vars

(* ------------------- the sweeps and failing deletions ------------------ *)
\* two sessions that are left alone past their deadline, stray files, and
\* one run of each sweep, run between requests, in which an unlink may fail
FaultBudget(strays) ==
    [Budget(MaxSessions + 1, 0, 1, 0, MaxSweeps, MaxSweeps, 1, 1, {MaxFileSize}, 0)
        EXCEPT !.strays = strays, !.faults = MaxFaults]

FaultInit == \E strays \in SUBSET {StrayId, BadStem} : InitWith(FaultBudget(strays))

SweepsIdle == sw.pc = "idle" /\ os.pc = "idle"

FaultNext ==
    \/ SweepsIdle /\ InitSteps
    \/ SweepsIdle /\ UploadSteps
    \/ SweepsIdle /\ Tick
    \/ SweepsIdle /\ Quiet /\ E_Query
    \/ \E ok \in BOOLEAN : E_Clean(ok)
    \/ E_Commit
    \/ SweepsIdle /\ Quiet /\ O_Query
    \/ O_List
    \/ \E ok \in BOOLEAN : O_Delete(ok)
    \/ O_Done

FaultSpec == FaultInit /\ [][FaultNext]_vars

\* unlink calls that have raised so far
FaultsSoFar == MaxFaults - left.faults

\* C25: in both sweeps a failure on one item (its temp file cannot be
\* deleted, or its identifier cannot be interpreted) does not keep the
\* other items from being processed: when the expired-session sweep
\* commits, every session past its deadline in pending, processing or
\* failed is expired and only files whose unlink raised are left of them;
\* when a run of the orphan sweep is over, the only orphaned temp files
\* left are those whose unlink raised or whose stem is no number.
C25_SweepsSurviveItemFailure ==
    [][/\ E_Commit
          => /\ \A t \in Uploads :
                   (tasks[t].status \in {PENDING, PROCESSING, FAILED} /\ PastDeadline(t))
                   => tasks'[t].status = EXPIRED
             /\ Cardinality({t \in Uploads : /\ tasks'[t].status = EXPIRED
                                             /\ t \in DOMAIN temp'})
                   <= FaultsSoFar
       /\ (os.pc # "idle" /\ os'.pc = "idle")
          => Cardinality({s \in DOMAIN temp' : IsNumber(s) /\ ~OfOpenSession(s)})
                <= FaultsSoFar]_vars

\* C26: the orphan sweep is safe to run concurrently with live traffic:
\* under every interleaving with init and upload_chunk requests it never
\* deletes the temp file of a session whose status is pending or
\* processing.
C26_OrphanSweepSparesOpenSessions ==
    [][\A ok \in BOOLEAN :
          O_Delete(ok)
          => \A s \in DOMAIN temp : OfOpenSession(s) => s \in DOMAIN temp']_vars

(* ------------------------ resource reclamation ------------------------- *)
\* one session with a chunk upload and an abort, stray files, the clock,
\* and both sweeps run again and again
ReclaimBudget(strays) ==
    [Budget(MaxSessions, 0, 1, MaxAborts, MaxSweeps, MaxSweeps, 1, 1,
            {MaxFileSize}, 0)
        EXCEPT !.strays = strays, !.faults = MaxFaults]

ReclaimInit == \E strays \in SUBSET {StrayId, BadStem} : InitWith(ReclaimBudget(strays))

\* whatever runs the sweeps (they have no caller in the application)
\* starts them again
Reschedule ==
    /\ left.sweeps < MaxSweeps \/ left.orphans < MaxSweeps
    /\ left' = [left EXCEPT !.sweeps = MaxSweeps, !.orphans = MaxSweeps]
    /\ UNCHANGED <<tasks, temp, perm, fcsFiles, now, nextFileId, ini, up,
                   fin, ab, sw, os, last, stats, cq, job>>

ReclaimNext ==
    \/ InitSteps
    \/ UploadSteps
    \/ AbortSteps
    \/ SweepSteps
    \/ Reschedule

\* both sweeps keep being run and every run that was started goes on to
\* its end; an unlink raises only MaxFaults times
ReclaimFair ==
    /\ WF_vars(Reschedule)
    /\ WF_vars(E_Query)
    /\ WF_vars((\E ok \in BOOLEAN : E_Clean(ok)) \/ E_Commit)
    /\ WF_vars(O_Query)
    /\ WF_vars(O_List \/ (\E ok \in BOOLEAN : O_Delete(ok)) \/ O_Done)

ReclaimSpec == ReclaimInit /\ [][ReclaimNext]_vars /\ ReclaimFair

\* the temp file sid is to be reclaimed: its session is abandoned
\* (processing past the deadline) or failed, or it has no task row
Reclaimable(sid) ==
    /\ HasTemp(sid)
    /\ \/ sid \notin TaskIds
       \/ /\ sid \in Uploads
          /\ \/ tasks[sid].status = FAILED
             \/ tasks[sid].status = PROCESSING /\ PastDeadline(sid)

\* C27: resource reclamation.  If both sweeps keep being run, every temp
\* file of a session that is abandoned or failed, or of no task row, is
\* eventually deleted.
C27_TempFilesReclaimed ==
    \A sid \in {BadStem, StrayId} \cup (1 .. MaxSessions) :
        Reclaimable(sid) ~> ~HasTemp(sid)

(* --------------------------- chunk order ------------------------------- *)
\* a client that sends every chunk of its file once, in any order and
\* without waiting for the answers
OrderBudget ==
    Budget(MaxSessions, 0, MaxUploads, 0, 0, 0, 0, MaxReqs,
           {MaxFileSize, MaxFileSize + ChunkSize - 1}, 0)

\* chunk i of session t is on its way: a handler holds it
InFlight(t, i) ==
    \E r \in Reqs : up[r].pc # "idle" /\ up[r].tid = t /\ up[r].idx = i

SendOnce(user, tid, chunk_number) ==
    /\ tid \in Uploads
    /\ ~InFlight(tid, chunk_number)
    /\ ~Written(tid, chunk_number)
    /\ UC_Load(user, tid, chunk_number, "ok")

OrderNext ==
    \/ InitSteps
    \/ \E t \in TaskIds, i \in ChunkNumbers : SendOnce(Owner, t, i)
    \/ \E r \in Reqs : UC_Save(r)
    \/ \E r \in Reqs : UC_Commit(r)
    \/ \E r \in Reqs : UC_Trigger(r)
    \/ FinalizeSteps

OrderSpec == InitWith(OrderBudget) /\ [][OrderNext]_vars

\* the indices of session t whose chunk has been written
WrittenSet(t) ==
    {i \in 0 .. tasks[t].extra_data.total_chunks - 1 : Written(t, i)}

RECURSIVE SumDeclared(_, _)
SumDeclared(e, S) ==
    IF S = {} THEN 0
    ELSE LET i == CHOOSE x \in S : TRUE
         IN  DeclaredSize(i, e) + SumDeclared(e, S \ {i})

\* C28: chunk order does not matter.  Whatever the order in which a set of
\* valid chunks of a session was accepted, the temp file holds the file's
\* bytes at [i*chunk_size, i*chunk_size + len) for every accepted i and is
\* untouched elsewhere, and uploaded_chunks, uploaded_bytes and the
\* recorded indices are those of the set.
C28_OrderIndependent ==
    \A t \in Uploads :
        (/\ HasTemp(t)
         /\ tasks[t].status = PROCESSING
         /\ \A r \in Reqs : up[r].pc = "idle")
        => LET e == tasks[t].extra_data
               S == WrittenSet(t)
           IN  /\ Numbers(t) = S
               /\ e.uploaded_chunks = Cardinality(S)
               /\ e.uploaded_bytes = SumDeclared(e, S)
               /\ Len(temp[t]) = e.file_size
               /\ \A p \in 1 .. e.file_size :
                     temp[t][p] = IF \E i \in S : /\ p > i * e.chunk_size
                                                  /\ p <= i * e.chunk_size + DeclaredSize(i, e)
                                  THEN FileByte(p) ELSE 0

\* the positions of the temp file that the chunk of handler r covers
WriteRange(r) ==
    LET cs == up[r].snap.extra_data.chunk_size
    IN  {p \in 1 .. up[r].idx * cs + Len(up[r].data) : p > up[r].idx * cs}

\* C29: for every chunk accepted by upload_chunk the written byte range
\* [index*chunk_size, index*chunk_size + length) lies within the file and
\* is disjoint from the range of every other index, so the temp file's
\* size stays the file_size allocated at init.
C29_WritesStayInsideFile ==
    /\ \A r \in Reqs :
          up[r].pc # "idle"
          => /\ WriteRange(r) \subseteq 1 .. up[r].snap.extra_data.file_size
             /\ \A q \in Reqs :
                   (up[q].pc # "idle" /\ up[q].tid = up[r].tid /\ up[q].idx # up[r].idx)
                   => WriteRange(q) \cap WriteRange(r) = {}
    /\ \A t \in Uploads :
          HasTemp(t) => Len(temp[t]) = tasks[t].extra_data.file_size

\* every chunk of a file that is no multiple of the chunk size is written,
\* one of them twice, and a further write is on its way
C29_Witness ==
    \E t \in Uploads :
        LET e == tasks[t].extra_data
        IN  /\ e.file_size % e.chunk_size # 0
            /\ HasTemp(t)
            /\ WrittenSet(t) = 0 .. e.total_chunks - 1
            /\ Len(temp[t]) = e.file_size
            /\ \E r \in Reqs : up[r].pc = "saved" /\ up[r].tid = t
                               /\ up[r].idx \in Numbers(t)

\* progress_percentage = uploaded_bytes / file_size * 100 (whole percents)
ProgressPercentage(e) == (e.uploaded_bytes * 100) \div e.file_size

\* C30: after any sequence of accepted chunks, re-deliveries included,
\* uploaded_bytes never exceeds file_size, and the progress percentage
\* reported by upload_chunk and the task-status endpoint lies between 0
\* and 100.
C30_ProgressWithinBounds ==
    \A t \in Uploads :
        LET e == tasks[t].extra_data
        IN  /\ e.uploaded_bytes <= e.file_size
            /\ ProgressPercentage(e) >= 0
            /\ ProgressPercentage(e) <= 100

(* ------------------------- statistics tasks ---------------------------- *)
\* calculate requests served one at a time, the jobs in the background
RetryBudget ==
    [Budget(0, MaxStats + MaxCalcReqs, 0, 0, 0, 0, 0, 1, {}, 0) EXCEPT !.log = TRUE]
RetrySpec == InitWith(RetryBudget) /\ [][StatisticsSteps]_vars

\* the statistics tasks of a file (by the id of its fcs_files row)
StatisticsOf(fcs) ==
    {t \in TaskIds : tasks[t].task_type = STATISTICS /\ tasks[t].fcs_file_id = fcs}

\* the most recent statistics task of the file is failed
LatestFailed(fcs) ==
    /\ StatisticsOf(fcs) # {}
    /\ \E t \in StatisticsOf(fcs) : /\ \A u \in StatisticsOf(fcs) : u <= t
                                    /\ tasks[t].status = FAILED

StatsBudget ==
    [Budget(0, MaxStats + MaxCalcReqs, 0, 0, 0, 0, 0, MaxCalcReqs, {}, 0)
        EXCEPT !.log = TRUE]
StatsSpec == InitWith(StatsBudget) /\ [][StatisticsSteps]_vars

\* C39: at any time at most one statistics task of a given file is pending
\* or processing, also when two calculate requests for the file overlap;
\* a request that finds such a task returns its id and creates nothing.
C39_OneActiveStatisticsTask ==
    /\ \A target \in CalcTargets : Cardinality(InProgress(target.fcs)) <= 1
    /\ last.op = "calculate" /\ last.resp = "in_progress"
       => /\ last.tid \in TaskIds
          /\ tasks[last.tid].task_type = STATISTICS

(* --------------------------- chunk store ------------------------------- *)
\* C32: storage.finalize_chunked_upload moves: with a temp file for the
\* session, afterwards the temp file is gone and the permanent file of the
\* given file id exists with the same bytes, every other file untouched;
\* without a temp file it raises not-found and creates no permanent file.
C32_FinalizeMoves ==
    [][\A f \in FinIds :
          F_Move(f)
          => LET sid == fin[f].tid
                 fid == fin[f].file_id
             IN  IF HasTemp(sid)
                 THEN /\ sid \notin DOMAIN temp'
                      /\ fid \notin DOMAIN perm
                      /\ fid \in DOMAIN perm'
                      /\ perm'[fid].data = temp[sid]
                      /\ Len(perm'[fid].data) = Len(temp[sid])
                      /\ \A x \in DOMAIN perm : perm'[x] = perm[x]
                      /\ \A s \in DOMAIN temp \ {sid} :
                            s \in DOMAIN temp' /\ temp'[s] = temp[s]
                      /\ fin'[f].pc = "moved"
                 ELSE /\ perm' = perm
                      /\ temp' = temp
                      /\ fin'[f].outcome = "failed"]_vars

\* one run has promoted the whole file of a session, and a second run of
\* the same session found no temp file
C32_Witness ==
    \E f, g \in FinIds :
        /\ fin[f].pc = "moved"
        /\ fin[f].file_id \in DOMAIN perm
        /\ perm[fin[f].file_id].data = FileContent(tasks[fin[f].tid].extra_data.file_size)
        /\ ~HasTemp(fin[f].tid)
        /\ fin[g].pc = "done" /\ fin[g].tid = fin[f].tid
        /\ fin[g].outcome = "failed"
        /\ fin[g].file_id = 0
        /\ DOMAIN perm = {fin[f].file_id}

\* C33: storage.abort_chunked_upload never fails its caller: without a temp
\* file of the session it returns normally and changes nothing, with one it
\* removes that file (so a second call changes nothing); it never touches
\* the temp file of another session or a permanent file.
C33_AbortNeverFails ==
    [][\A ok \in BOOLEAN :
          A_Storage(ok)
          => /\ left'.faults = left.faults
             /\ ab.tid \notin DOMAIN temp'
             /\ ~HasTemp(ab.tid) => temp' = temp
             /\ \A s \in DOMAIN temp \ {ab.tid} :
                   s \in DOMAIN temp' /\ temp'[s] = temp[s]
             /\ perm' = perm]_vars

(* ------------------------ the advisory deadline ------------------------ *)
\* C34: expires_at is advisory until the sweep runs: a session in
\* processing past its deadline still has its valid chunks accepted, its
\* finalizer still goes on to the storage and completes it, and no step
\* other than the commit of the expired-session sweep sets a task to
\* expired.
C34_DeadlineAdvisory ==
    [][/\ \A t \in Uploads :
             (PastDeadline(t) /\ tasks[t].status = PROCESSING)
             => LET e == tasks[t].extra_data
                IN  /\ \A i \in 0 .. e.total_chunks - 1 :
                          UploadCheck(t, tasks[t].user_id, i,
                              Payload("ok", i, e.file_size, e.chunk_size)) = "ok"
                    /\ e.uploaded_chunks = e.total_chunks
                       => FinalizeCheck(tasks[t]) = "go"
       /\ \A f \in FinIds :
             (F_Save(f, TRUE) /\ PastDeadline(fin[f].tid))
             => tasks'[fin[f].tid].status = COMPLETED
       /\ \A t \in TaskIds :
             (tasks'[t].status = EXPIRED /\ tasks[t].status # EXPIRED)
             => E_Commit /\ t \in sw.marked]_vars

\* a session was completed past its deadline before any sweep has run
C34_Witness ==
    \E t \in Uploads, f \in FinIds :
        /\ PastDeadline(t)
        /\ tasks[t].status = COMPLETED
        /\ fin[f].pc = "done" /\ fin[f].tid = t /\ fin[f].outcome = "completed"
        /\ left.sweeps = MaxSweeps
        /\ sw.pc = "idle"

(* ----------------------- a chunk that is not saved --------------------- *)
\* the session takes no uploads: every request for it is rejected
ClosedToUploads(t) ==
    \A u \in Users, i \in ChunkNumbers, k \in PayloadKinds :
        UploadCheck(t, u, i, Payload(k, i, DeclaredFileSize(t), DeclaredChunkSize(t))) # "ok"

\* C36: when storage.save_chunk raises for a validated chunk (the temp
\* file is gone), upload_chunk commits status failed with the fixed result
\* "Failed to save chunk", leaves uploaded_chunks, uploaded_bytes and
\* uploaded_chunk_numbers as they are and schedules no finalizer; a
\* session that is closed to uploads stays closed, so every later
\* upload_chunk for it is rejected.
C36_SaveFailureFailsSession ==
    [][/\ \A r \in Reqs :
             (UC_Commit(r) /\ up[r].pc = "savefail")
             => LET t == up[r].tid
                IN  /\ tasks'[t].status = FAILED
                    /\ tasks'[t].result = ErrorResult("save_chunk_failed", FALSE)
                    /\ tasks'[t].extra_data = tasks[t].extra_data
                    /\ fin' = fin
                    /\ up'[r].pc = "idle"
                    /\ ClosedToUploads(t)'
       /\ \A t \in Uploads :
             ClosedToUploads(t) => ClosedToUploads(t)']_vars

\* the write of a validated chunk failed: the session is failed with the
\* fixed result, its temp file is gone and it is closed to uploads
C36_Witness ==
    \E t \in Uploads :
        /\ tasks[t].status = FAILED
        /\ tasks[t].result = ErrorResult("save_chunk_failed", FALSE)
        /\ ~HasTemp(t)
        /\ ClosedToUploads(t)
        /\ \A r \in Reqs : up[r].pc = "idle"

(* ---------------------- how a finalizer run ends ----------------------- *)
\* one session whose finalizer may find that the promoted file cannot be
\* deleted
CompensateBudget == [TrafficBudget EXCEPT !.faults = MaxFaults]
CompensateSpec == InitWith(CompensateBudget) /\ [][TrafficNext]_vars

\* C35: a run of finalize_chunked_upload that has passed the completeness
\* check leaves the task in a terminal status when it ends: completed when
\* it succeeded, failed when the storage move, the parser, the save of the
\* record or the compensating delete of the promoted file failed.
C35_FinalizerEndsTerminal ==
    [][\A f \in FinIds :
          (fin[f].pc \in {"loaded", "moved", "cleaned"} /\ fin'[f].pc = "done")
          => tasks'[fin[f].tid].status =
                IF fin'[f].outcome = "completed" THEN COMPLETED ELSE FAILED]_vars

(* ------------------------- completed sessions -------------------------- *)
\* C37: whenever an upload task is completed, uploaded_chunks equals
\* total_chunks, the task is linked to exactly one FCSFile record, whose
\* file id is result.file_id and whose owner and visibility are the
\* session's user and is_public flag, the permanent file of that file id
\* exists, and the session has no temp file.
C37_CompletedIsConsistent ==
    \A t \in Uploads :
        tasks[t].status = COMPLETED
        => LET e == tasks[t].extra_data
           IN  /\ e.uploaded_chunks = e.total_chunks
               /\ tasks[t].fcs_file_id \in DOMAIN fcsFiles
               /\ FcsFilesOf(t) = {tasks[t].fcs_file_id}
               /\ LET row == fcsFiles[tasks[t].fcs_file_id]
                  IN  /\ tasks[t].result = FileResult(row.file_id)
                      /\ row.user_id = tasks[t].user_id
                      /\ row.is_public = e.is_public
                      /\ row.file_id \in DOMAIN perm
               /\ ~HasTemp(t)

(* ------------------------ the finalizing status ------------------------ *)
\* no row, and no copy of a row held by a handler, is finalizing
NoFinalizing ==
    /\ \A t \in TaskIds : tasks[t].status # FINALIZING
    /\ \A r \in Reqs : up[r].snap.status # FINALIZING
    /\ \A f \in FinIds : fin[f].snap.status # FINALIZING
    /\ ab.snap.status # FINALIZING

\* C38: no task is ever finalizing: no operation assigns that status, a
\* finalizer run leaves the status alone until it ends, and the checks for
\* finalizing (in finalize_chunked_upload, in the trigger guard of
\* upload_chunk and in the status filters of the sweeps) never decide
\* anything.
C38_NeverFinalizing ==
    [][/\ NoFinalizing /\ NoFinalizing'
       /\ \A f \in FinIds :
             /\ F_Load(f) => tasks' = tasks /\ fin'[f].outcome # "busy"
             /\ (F_Move(f) /\ HasTemp(fin[f].tid)) => tasks' = tasks
             /\ F_ParseFail(f) => tasks' = tasks
       /\ \A t \in TaskIds :
             /\ ShouldTrigger(tasks[t])
                <=> (/\ tasks[t].extra_data.uploaded_chunks
                          = tasks[t].extra_data.total_chunks
                     /\ tasks[t].status # COMPLETED)
             /\ IsActiveSession(tasks[t])
                <=> (/\ tasks[t].task_type = CHUNKED_UPLOAD
                     /\ tasks[t].status \in {PENDING, PROCESSING})]_vars

\* a second finalizer run passed the finalizing check while a first run
\* of the same session had promoted the file and not yet ended
C38_Witness ==
    \E f, g \in FinIds :
        /\ fin[f].pc = "moved"
        /\ fin[g].pc = "loaded"
        /\ fin[g].tid = fin[f].tid
        /\ tasks[fin[f].tid].status = PROCESSING
        /\ ~HasTemp(fin[f].tid)

====
